---- MODULE Spec2Model ----
(***************************************************************************)
(* OAuth1 provider of flask_oauthlib/provider/oauth1.py: the request       *)
(* validator (OAuth1RequestValidator) over a credential store, and the     *)
(* provider's endpoint handlers (OAuth1Provider).  A request handler is    *)
(* one action: the handler's code together with the validator calls the    *)
(* oauthlib endpoint makes on its behalf, in the order oauthlib makes      *)
(* them.  Requests are taken to be well formed (https, all mandatory       *)
(* oauth parameters present, HMAC-SHA1, keys of the configured length).    *)
(***************************************************************************)
EXTENDS Integers, Sequences, FiniteSets, TLC

VARIABLES
    reg,          \* what is registered on the provider now: the seven required
                  \* getters and setters (wired), the verifier getter and setter
    cached,       \* the server property has been read successfully
    wired,        \* the seven required getters and setters are registered
    down,         \* the store is failing: each of its callbacks raises
    clients,      \* the client keys the store has a client for
    testing,      \* app.testing
                  \* wired, vget, vset: as the server that self.server yields
                  \* has them: the cached server's, and what is registered
                  \* while none is cached
    vget,         \* _verifiergetter: "none" (not wired), "strict" (accepts
                  \* verifier, token only) or "lenient" (accepts any keyword)
    vset,         \* _verifiersetter wired
    grants,       \* the store's request tokens
    tokens,       \* the store's access tokens
    nonces,       \* the store's nonce records
    verifiers,    \* the store's verifier records
    exchanged,    \* history: request tokens exchanged for an access token
    used,         \* history: nonces presented to the access-token endpoint
    resp,         \* the last request handled and its response
    served,       \* the number of requests handled
    dupRaises,    \* the nonce store raises on a duplicate insert (or ignores it)
    npc,          \* per worker: position in validate_timestamp_and_nonce
    nkey,         \* per worker: the composite key presented
    nfound,       \* per worker: what the noncegetter returned
    nret,         \* per worker: the verdict returned
    nprior,       \* per worker: keys accepted before the call started
    ppc,          \* stepwise pass: the next validator step
    pkey,         \* stepwise pass: the client key the steps are called with
    preq,         \* stepwise pass: the request context
    pseen         \* stepwise pass: the client lookups of the steps so far

\* what no request changes: the wiring, the configuration, the store's
\* health and its clients
cfgvars   == <<reg, wired, down, clients, testing, vget, vset>>
storevars == <<grants, tokens, verifiers>>
flowvars  == <<exchanged, used, resp>>
noncevars == <<dupRaises, npc, nkey, nfound, nret, nprior>>
passvars  == <<ppc, pkey, preq, pseen>>
vars == <<reg, cached, wired, down, clients, testing, vget, vset, grants, tokens, nonces,
          verifiers, exchanged, used, resp, served, dupRaises, npc, nkey,
          nfound, nret, nprior, ppc, pkey, preq, pseen>>

-----------------------------------------------------------------------------
(* Bounds of the model. *)
MaxGrants == 1        \* request tokens the token generator hands out
MaxTokens == 2        \* access tokens the token generator hands out
MaxRealmLen == 2      \* length of a realm list
NWorkers == 2         \* concurrent validate_timestamp_and_nonce calls
MaxRequests == 3      \* requests handled in a run of the whole provider

-----------------------------------------------------------------------------
(* Values. *)
None == "None"
NoAttr == "NoAttr"
Realms == {"r1", "r2"}
Timestamp == "t1"
Nonces == {"n1", "n2"}
Workers == 1..NWorkers

RECURSIVE SeqsUpTo(_, _)
SeqsUpTo(S, n) ==
    IF n = 0 THEN {<<>>}
    ELSE LET shorter == SeqsUpTo(S, n - 1)
         IN shorter \cup {Append(s, e) : s \in shorter, e \in S}

RealmLists == SeqsUpTo(Realms, MaxRealmLen)

\* set(xs)
SetOf(xs) == {xs[i] : i \in DOMAIN xs}

The(s) == CHOOSE e \in s : TRUE

\* ' '.join(realms): the realm names separated by single spaces
RECURSIVE Join(_)
Join(xs) ==
    IF Len(xs) = 0 THEN <<>>
    ELSE IF Len(xs) = 1 THEN <<xs[1]>>
    ELSE <<xs[1], " ">> \o Join(Tail(xs))

\* str.split(' ') of a joined realm string, '' giving no realm
RECURSIVE Split(_)
Split(str) ==
    IF Len(str) = 0 THEN <<>>
    ELSE IF Head(str) = " " THEN Split(Tail(str))
    ELSE <<Head(str)>> \o Split(Tail(str))

-----------------------------------------------------------------------------
(* The clients of the store: read-only to the provider. *)
ClientStore ==
    [ck1 |-> [client_key |-> "ck1", client_secret |-> "cs1",
              redirect_uris |-> <<"u1">>, default_realms |-> <<"r1", "r2">>],
     ck2 |-> [client_key |-> "ck2", client_secret |-> "cs2",
              redirect_uris |-> <<"u2">>, default_realms |-> <<>>],
     ck3 |-> [client_key |-> "ck3", client_secret |-> "cs3",
              redirect_uris |-> <<>>, default_realms |-> <<"r1">>]]

ClientKeys == {"ck1", "ck2", "ck3", "ckX"}  \* ckX is no client of the store

\* what the token generator hands out, in order
RequestTokenNames == <<"rt1", "rt2", "rt3", "rt4">>
AccessTokenNames == <<"at1", "at2", "at3", "at4">>
RequestTokenSecrets == <<"rs1", "rs2", "rs3", "rs4">>
AccessTokenSecrets == <<"as1", "as2", "as3", "as4">>

-----------------------------------------------------------------------------
(* The store behind the registered getters: each returns the set of the    *)
(* objects found, empty for absent.                                        *)
clientgetter(client_key) ==
    IF client_key \in clients THEN {ClientStore[client_key]} ELSE {}

grantgetter(token) == {g \in grants : g.token = token}

tokengetter(client_key, token) ==
    {t \in tokens : t.client_key = client_key /\ t.token = token}

noncegetter(store, client_key, timestamp, nonce, request_token, access_token) ==
    {n \in store : n = [client_key |-> client_key, timestamp |-> timestamp,
                        nonce |-> nonce, request_token |-> request_token,
                        access_token |-> access_token]}

verifiergetter(verifier, token) ==
    {v \in verifiers : v.verifier = verifier /\ v.token = token}

-----------------------------------------------------------------------------
(* The request context and the result of a validator method: the value     *)
(* returned, whether the call raised a fault that is no OAuth1Error, and    *)
(* the request context as the call left it.                                *)
NewRequest ==
    [client |-> {}, request_token |-> {}, access_token |-> {},
     redirect_uri |-> None]

Returns(value, r) == [ret |-> value, fault |-> FALSE, r |-> r]
Raises(r) == [ret |-> FALSE, fault |-> TRUE, r |-> r]

dummy_client == "dummy_client"
dummy_request_token == "dummy_request_token"
\* the validator defines no dummy_access_token: the name stands for no token
dummy_access_token == "dummy_access_token"

WithClient(client_key, r) ==
    IF r.client = {} THEN [r EXCEPT !.client = clientgetter(client_key)] ELSE r

get_client_secret(client_key, r) ==
    LET r2 == WithClient(client_key, r)
    IN IF r2.client # {} THEN Returns(The(r2.client).client_secret, r2)
       ELSE Returns(None, r2)

get_request_token_secret(client_key, token, r) ==
    LET tok == IF r.request_token # {} THEN r.request_token ELSE grantgetter(token)
    IN IF tok # {} /\ The(tok).client_key = client_key
       THEN Returns(The(tok).secret, [r EXCEPT !.request_token = tok])
       ELSE Returns(None, r)

get_access_token_secret(client_key, token, r) ==
    LET tok == IF r.access_token # {} THEN r.access_token
               ELSE tokengetter(client_key, token)
    IN IF tok # {}
       THEN Returns(The(tok).secret, [r EXCEPT !.access_token = tok])
       ELSE Returns(None, r)

get_default_realms(client_key, r) ==
    LET r2 == WithClient(client_key, r)
    IN IF r2.client # {} THEN Returns(The(r2.client).default_realms, r2)
       ELSE Returns(<<>>, r2)

\* get_realms losing the realms of the request token
get_realms_dropped(token, r) ==
    LET tok == IF r.request_token # {} THEN r.request_token ELSE grantgetter(token)
    IN IF tok = {} THEN Returns(<<>>, r)
       ELSE Returns(<<>>, [r EXCEPT !.request_token = tok])

get_realms(token, r) ==
    LET tok == IF r.request_token # {} THEN r.request_token ELSE grantgetter(token)
    IN IF tok = {} THEN Returns(<<>>, r)
       ELSE LET r2 == [r EXCEPT !.request_token = tok]
            IN IF The(tok).realms.tag = "list"
               THEN Returns(The(tok).realms.val, r2)
               ELSE Returns(<<>>, r2)

get_redirect_uri(token, r) ==
    LET tok == IF r.request_token # {} THEN r.request_token ELSE grantgetter(token)
    IN IF tok = {} THEN Raises(r) ELSE Returns(The(tok).redirect_uri, r)

validate_client_key(client_key, r) ==
    LET r2 == WithClient(client_key, r)
    IN Returns(r2.client # {}, r2)

\* validate_request_token not comparing the token's client
validate_request_token_any(client_key, token, r) ==
    LET tok == IF r.request_token # {} THEN r.request_token ELSE grantgetter(token)
    IN IF tok # {}
       THEN Returns(TRUE, [r EXCEPT !.request_token = tok])
       ELSE Returns(FALSE, r)

validate_request_token(client_key, token, r) ==
    LET tok == IF r.request_token # {} THEN r.request_token ELSE grantgetter(token)
    IN IF tok # {} /\ The(tok).client_key = client_key
       THEN Returns(TRUE, [r EXCEPT !.request_token = tok])
       ELSE Returns(FALSE, r)

validate_access_token(client_key, token, r) ==
    LET tok == IF r.access_token # {} THEN r.access_token
               ELSE tokengetter(client_key, token)
    IN IF tok # {}
       THEN Returns(TRUE, [r EXCEPT !.access_token = tok])
       ELSE Returns(FALSE, r)

\* the record handed to the noncesetter: its nonce is the name the method
\* rebound to the noncegetter's (falsy) result
NonceRecord(client_key, timestamp, found, request_token, access_token) ==
    [client_key |-> client_key, timestamp |-> timestamp,
     nonce |-> IF found = {} THEN None ELSE The(found).nonce,
     request_token |-> request_token, access_token |-> access_token]

noncesetter(store, rec) == store \cup {rec}

\* ret: the verdict; store: the nonce store after the call
validate_timestamp_and_nonce(store, client_key, timestamp, nonce, request_token, access_token) ==
    LET found == noncegetter(store, client_key, timestamp, nonce,
                             request_token, access_token)
    IN IF found # {} THEN [ret |-> FALSE, store |-> store]
       ELSE [ret |-> TRUE,
             store |-> noncesetter(store,
                          NonceRecord(client_key, timestamp, found,
                                      request_token, access_token))]

\* validate_redirect_uri letting a client without redirect_uris use any
validate_redirect_uri_open(client_key, redirect_uri, r) ==
    LET r2 == WithClient(client_key, r)
    IN IF r2.client = {} THEN Returns(FALSE, r2)
       ELSE IF The(r2.client).redirect_uris = <<>>
       THEN Returns(TRUE, r2)
       ELSE Returns(redirect_uri \in SetOf(The(r2.client).redirect_uris),
                    [r2 EXCEPT !.redirect_uri = redirect_uri])

validate_redirect_uri(client_key, redirect_uri, r) ==
    LET r2 == WithClient(client_key, r)
    IN IF r2.client = {} THEN Returns(FALSE, r2)
       ELSE IF The(r2.client).redirect_uris = <<>> /\ redirect_uri = None
       THEN Returns(TRUE, r2)
       ELSE Returns(redirect_uri \in SetOf(The(r2.client).redirect_uris),
                    [r2 EXCEPT !.redirect_uri = redirect_uri])

validate_requested_realms(client_key, realms, r) ==
    LET r2 == WithClient(client_key, r)
    IN IF r2.client = {} THEN Raises(r2)
       ELSE IF SetOf(realms) \subseteq SetOf(The(r2.client).default_realms)
       THEN Returns(TRUE, r2)
       ELSE Returns(TRUE, r2)

\* validate_realms asking for exactly the token's realms
validate_realms_exact(client_key, token, r, realms) ==
    LET tok == IF r.access_token # {} THEN r.access_token
               ELSE tokengetter(client_key, token)
        r2 == [r EXCEPT !.access_token = tok]
    IN IF tok = {} THEN Raises(r2)
       ELSE Returns(SetOf(realms) = SetOf(The(tok).realms), r2)

validate_realms(client_key, token, r, realms) ==
    LET tok == IF r.access_token # {} THEN r.access_token
               ELSE tokengetter(client_key, token)
        r2 == [r EXCEPT !.access_token = tok]
    IN IF tok = {} THEN Raises(r2)
       ELSE Returns(SetOf(realms) \subseteq SetOf(The(tok).realms), r2)

\* validate_verifier taking a missing verifier row for a match
validate_verifier_unchecked(client_key, token, verifier, r) ==
    IF vget = "none" THEN Returns(TRUE, r)
    ELSE LET data == verifiergetter(verifier, token)
         IN IF data # {} /\ The(data).client_key # NoAttr
            THEN Returns(The(data).client_key = client_key, r)
            ELSE Returns(TRUE, r)

validate_verifier(client_key, token, verifier, r) ==
    IF vget = "none" THEN Returns(TRUE, r)
    ELSE LET data == verifiergetter(verifier, token)
         IN IF data = {} THEN Returns(FALSE, r)
            ELSE IF The(data).client_key # NoAttr
            THEN Returns(The(data).client_key = client_key, r)
            ELSE Returns(TRUE, r)

verify_request_token(token, r) ==
    LET tok == IF r.request_token # {} THEN r.request_token ELSE grantgetter(token)
    IN IF tok # {} THEN Returns(TRUE, [r EXCEPT !.request_token = tok])
       ELSE Returns(FALSE, r)

verify_realms(token, realms, r) ==
    LET tok == IF r.request_token # {} THEN r.request_token ELSE grantgetter(token)
    IN IF tok = {} THEN Returns(FALSE, r)
       ELSE LET r2 == [r EXCEPT !.request_token = tok]
            IN IF The(tok).realms.tag = "noattr" THEN Returns(TRUE, r2)
               ELSE IF The(tok).realms.tag = "none" THEN Raises(r2)
               ELSE Returns(SetOf(The(tok).realms.val) = SetOf(realms), r2)

-----------------------------------------------------------------------------
(* The signature check of the assembled server.  A request's signature is  *)
(* the pair of secrets it was signed with ("" where none was used); HMAC   *)
(* verification recomputes it from the secrets the validator looks up, a   *)
(* secret that was not found counting as the empty string.                 *)
OrEmpty(secret) == IF secret = None THEN "" ELSE secret

ClientSecrets == {"cs1", "cs2", "cs3", ""}

check_signature(sig, client_key, token, is_token_request, r) ==
    LET cs == get_client_secret(client_key, r)
        ts == IF token = None THEN Returns(None, cs.r)
              ELSE IF is_token_request
              THEN get_request_token_secret(client_key, token, cs.r)
              ELSE get_access_token_secret(client_key, token, cs.r)
    IN Returns(sig = <<OrEmpty(cs.ret), OrEmpty(ts.ret)>>, ts.r)

\* a server whose signature check is replaced whatever app.testing says
server_check_signature_replaced(sig, client_key, token, is_token_request, r) ==
    Returns(TRUE, r)

\* server: with app.testing the server's signature check is replaced by one
\* that always answers True
server_check_signature(sig, client_key, token, is_token_request, r) ==
    IF testing THEN Returns(TRUE, r)
    ELSE check_signature(sig, client_key, token, is_token_request, r)

-----------------------------------------------------------------------------
(* Protected resources. *)

\* the validation pass behind require_oauth
validate_protected_resource_request(client_key, token, realms, nonce, sig) ==
    LET nv == validate_timestamp_and_nonce(nonces, client_key, Timestamp, nonce,
                                           None, token)
    IN IF ~nv.ret
       THEN [valid |-> FALSE, fault |-> FALSE, nonce_ok |-> FALSE,
             nonces |-> nv.store]
       ELSE LET vc == validate_client_key(client_key, NewRequest)
                ck == IF vc.ret THEN client_key ELSE dummy_client
                vt == validate_access_token(ck, token, vc.r)
                at == IF vt.ret THEN token ELSE dummy_access_token
                vr == validate_realms(ck, at, vt.r, realms)
                vs == server_check_signature(sig, ck, at, FALSE, vr.r)
            IN IF vr.fault
               THEN [valid |-> FALSE, fault |-> TRUE, nonce_ok |-> TRUE,
                     nonces |-> nv.store]
               ELSE [valid |-> vc.ret /\ vt.ret /\ vr.ret /\ vs.ret,
                     fault |-> FALSE, nonce_ok |-> TRUE, nonces |-> nv.store]

\* require_oauth running the handler whatever the verdict
require_oauth_unchecked(valid) == [status |-> 200, handler |-> TRUE]

\* what require_oauth answers for a verdict: 403 without running the handler,
\* or the handler's response
require_oauth(valid) ==
    IF ~valid THEN [status |-> 403, handler |-> FALSE]
    ELSE [status |-> 200, handler |-> TRUE]

-----------------------------------------------------------------------------
(* Request tokens. *)

\* OAUTH1_PROVIDER_REALMS
ConfigRealms == <<"r1", "r2">>

check_realms(realms) == SetOf(realms) \subseteq SetOf(ConfigRealms)

\* the validation pass behind request_token_handler; realm <<>> is a request
\* without a realm parameter, redirect_uri None one without a callback
validate_request_token_request(client_key, realm, redirect_uri, nonce, sig) ==
    LET r0 == [NewRequest EXCEPT !.redirect_uri = redirect_uri]
        dr == get_default_realms(client_key, r0)
        realms == IF realm # <<>> THEN realm ELSE dr.ret
        r1 == IF realm # <<>> THEN r0 ELSE dr.r
        stop(outcome) == [outcome |-> outcome, nonce_ok |-> FALSE,
                          nonces |-> nonces, r |-> r1, realms |-> realms]
    IN IF ~check_realms(realms) \/ redirect_uri = None THEN stop("error")
       ELSE
       LET nv == validate_timestamp_and_nonce(nonces, client_key, Timestamp,
                                              nonce, None, None)
       IN IF ~nv.ret THEN stop("invalid")
          ELSE
          LET vc == validate_client_key(client_key, r1)
              ck == IF vc.ret THEN client_key ELSE dummy_client
              vl == validate_requested_realms(ck, realms, vc.r)
              vu == validate_redirect_uri(ck, redirect_uri, vl.r)
              vs == server_check_signature(sig, ck, None, FALSE, vu.r)
          IN [outcome |-> IF vl.fault THEN "fault"
                          ELSE IF vc.ret /\ vl.ret /\ vu.ret /\ vs.ret
                          THEN "valid" ELSE "invalid",
              nonce_ok |-> TRUE, nonces |-> nv.store, r |-> vs.r,
              realms |-> realms]

\* grantsetter(token, request): the store keeps the request token with the
\* client, callback and realms of the request; how it keeps an empty realm
\* list (as a list, as None, or in no attribute) is the store's choice
grantsetter(token, secret, client_key, redirect_uri, realms, tag) ==
    grants \cup {[token |-> token, secret |-> secret, client_key |-> client_key,
                  redirect_uri |-> redirect_uri,
                  realms |-> [tag |-> tag, val |-> realms]]}

save_request_token(token, secret, client_key, redirect_uri, realms, tag) ==
    grantsetter(token, secret, client_key, redirect_uri, realms, tag)

\* a request-token endpoint that saves the token it made whatever the verdict
create_request_token_response_always(valid, token, secret, client_key, redirect_uri, realms, tag) ==
    save_request_token(token, secret, client_key, redirect_uri, realms, tag)

\* the request tokens of the store after the endpoint has answered: a new
\* token is made and saved once, and only for a request the pass accepted
create_request_token_response(valid, token, secret, client_key, redirect_uri, realms, tag) ==
    IF valid
    THEN save_request_token(token, secret, client_key, redirect_uri, realms, tag)
    ELSE grants

\* tokensetter(token, request): the store keeps the access token with the
\* client of the request and the realms of the token's oauth_authorized_realms
tokensetter(token, secret, client_key, authorized_realms) ==
    tokens \cup {[token |-> token, secret |-> secret, client_key |-> client_key,
                  realms |-> Split(authorized_realms)]}

save_access_token(token, secret, client_key, authorized_realms) ==
    tokensetter(token, secret, client_key, authorized_realms)

\* the access tokens of the store after the endpoint has answered
create_access_token_response(valid, token, secret, client_key, authorized_realms) ==
    IF valid
    THEN save_access_token(token, secret, client_key, authorized_realms)
    ELSE tokens

-----------------------------------------------------------------------------
(* Authorization and access tokens. *)

VerifierNames == {"v1", "v2"}

\* save_verifier: with a verifier setter wired the method calls the verifier
\* getter with token, verifier and request.  fault: the call raised (no
\* getter to call, or a getter that takes no request keyword); store: the
\* verifier rows after the call
save_verifier(token, verifier) ==
    IF vset
    THEN [fault |-> vget # "lenient", store |-> verifiers]
    ELSE [fault |-> FALSE, store |-> verifiers]

\* the validation pass behind access_token_handler
validate_access_token_request(client_key, token, verifier, nonce, sig) ==
    LET nv == validate_timestamp_and_nonce(nonces, client_key, Timestamp, nonce,
                                           token, None)
    IN IF ~nv.ret
       THEN [valid |-> FALSE, vv |-> FALSE, nonce_ok |-> FALSE,
             nonces |-> nv.store, r |-> NewRequest, token |-> token]
       ELSE LET vc == validate_client_key(client_key, NewRequest)
                ck == IF vc.ret THEN client_key ELSE dummy_client
                vt == validate_request_token(ck, token, vc.r)
                rt == IF vt.ret THEN token ELSE dummy_request_token
                vv == validate_verifier(ck, rt, verifier, vt.r)
                vs == server_check_signature(sig, ck, rt, TRUE, vv.r)
            IN [valid |-> vc.ret /\ vt.ret /\ vv.ret /\ vs.ret, vv |-> vv.ret,
                nonce_ok |-> TRUE, nonces |-> nv.store, r |-> vs.r,
                token |-> rt]

\* error_uri with the error appended
ErrorUri(error) ==
    CASE error = "denied" -> "error_uri?error=denied"
      [] error = "invalid_client" -> "error_uri?error=invalid_client"
      [] OTHER -> "error_uri?error=invalid_request"

ErrorLocations == {ErrorUri(e) : e \in {"denied", "invalid_client", "invalid_request"}}

\* an authorize_handler that confirms whatever the callback decided
post_decision_ignored(decision) == "confirm"

\* authorize_handler, POST: what the callback's decision leads to
post_decision(decision) == IF ~decision THEN "denied" ELSE "confirm"

\* confirm_authorization_request for the request token presented, issuing
\* `verifier`.  status 500: an exception left the method
confirm_authorization_request(token, verifier) ==
    LET known == verify_request_token(token, NewRequest)
        realms == get_realms(token, known.r)
        again == verify_request_token(token, NewRequest)
        vr == verify_realms(token, realms.ret, again.r)
        sv == save_verifier(token, verifier)
        uri == get_redirect_uri(token, again.r)
        out(status, location, store) ==
            [status |-> status, location |-> location, verifiers |-> store]
    IN IF ~known.ret THEN out(500, None, verifiers)
       ELSE IF ~again.ret THEN out(302, ErrorUri("invalid_client"), verifiers)
       ELSE IF realms.ret # <<>> /\ vr.fault THEN out(500, None, verifiers)
       ELSE IF realms.ret # <<>> /\ ~vr.ret
       THEN out(302, ErrorUri("invalid_request"), verifiers)
       ELSE IF sv.fault THEN out(500, None, sv.store)
       ELSE IF uri.fault THEN out(500, None, sv.store)
       ELSE out(302, uri.ret, sv.store)

-----------------------------------------------------------------------------
(* What is recorded of the last request: its response, and what the store  *)
(* held about the request when it arrived.                                 *)
NoResp ==
    [op |-> "none", status |-> 0, location |-> None, handler |-> FALSE,
     accepted |-> FALSE,    \* the validation pass answered True
     faulted |-> FALSE,     \* an exception that is no OAuth1Error left the pass
     token |-> None,        \* the token the request presented
     issued |-> None,       \* the token or verifier the response issued
     known_client |-> FALSE,\* the store has the client
     known_token |-> FALSE, \* the store has the token, for that client
     nonce_ok |-> FALSE,    \* what validate_timestamp_and_nonce answered
     signed |-> FALSE,      \* signed with the secrets the store holds
     required |-> {},       \* the realms required (resource) or granted (exchange)
     held |-> {},           \* the realms of the access token presented or issued
     vv |-> FALSE,          \* what validate_verifier answered
     vrow |-> FALSE,        \* a verifier row for (verifier, token) of the client
     vrow_any |-> FALSE,    \* ... or of no stated client
     reused |-> FALSE,      \* the request token was exchanged before
     new_nonce |-> FALSE,   \* the nonce was never presented before
     approved |-> FALSE,    \* the confirmation callback approved
     confirmed |-> FALSE,   \* confirm_authorization_request was invoked
     touched |-> FALSE,     \* a callback of the store was invoked
     error |-> None]        \* the exception that left the handler, if any

HasClient(client_key) == client_key \in clients

SecretOfClient(client_key) ==
    IF HasClient(client_key) THEN ClientStore[client_key].client_secret ELSE "?"

GrantsOf(client_key, token) ==
    {g \in grants : g.token = token /\ g.client_key = client_key}

TokensOf(client_key, token) ==
    {t \in tokens : t.token = token /\ t.client_key = client_key}

IssuedGrantNames == {RequestTokenNames[i] : i \in 1..MaxGrants}
IssuedTokenNames == {AccessTokenNames[i] : i \in 1..MaxTokens}
GrantSecrets == {RequestTokenSecrets[i] : i \in 1..MaxGrants} \cup {""}
TokenSecrets == {AccessTokenSecrets[i] : i \in 1..MaxTokens} \cup {""}

-----------------------------------------------------------------------------
(* The server property: a cached property, so a successful read is kept    *)
(* and returned from then on; otherwise the server is assembled from what  *)
(* is registered at the time of the read, and a read that raises           *)
(* RuntimeError (registered.wired false) keeps nothing.                    *)
\* a server property that assembles the server anew at every read
server_rebuilt(captured, hit, registered) == registered

server(captured, hit, registered) == IF hit THEN captured ELSE registered

\* a handler's read of self.server: kept when it succeeded
ServerRead == cached' = (cached \/ wired)

-----------------------------------------------------------------------------
(* The endpoint handlers. *)

\* a handler left by an exception that is no OAuth1Error: RuntimeError out
\* of the server property, or what a callback of the store raised.  called:
\* the decorated function ran before; touched: a store callback was invoked
Refused(op, token, error, called, touched) ==
    /\ resp' = [NoResp EXCEPT !.op = op, !.status = 500, !.faulted = TRUE,
                              !.error = error, !.token = token,
                              !.handler = called, !.touched = touched]
    /\ ServerRead
    /\ UNCHANGED <<cfgvars, passvars, storevars, nonces, exchanged, used, noncevars>>

\* require_oauth(*realms): one protected-resource request
RequireOauth(client_key, token, realms, nonce, sig) ==
    IF ~wired THEN Refused("resource", token, "RuntimeError", FALSE, FALSE)
    ELSE IF down THEN Refused("resource", token, "StoreError", FALSE, TRUE)
    ELSE
    \E v \in {validate_protected_resource_request(client_key, token, realms,
                                                    nonce, sig)} :
    LET out == require_oauth(v.valid)
        held == TokensOf(client_key, token)
    IN /\ nonces' = v.nonces
       /\ resp' = [NoResp EXCEPT
              !.op = "resource",
              !.status = IF v.fault THEN 500 ELSE out.status,
              !.handler = ~v.fault /\ out.handler,
              !.accepted = ~v.fault /\ v.valid,
              !.faulted = v.fault,
              !.touched = TRUE,
              !.error = IF v.fault THEN "AttributeError" ELSE None,
              !.token = token,
              !.known_client = HasClient(client_key),
              !.known_token = held # {},
              !.nonce_ok = v.nonce_ok,
              !.signed = /\ held # {}
                         /\ sig = <<SecretOfClient(client_key), The(held).secret>>,
              !.required = SetOf(realms),
              !.held = IF held # {} THEN SetOf(The(held).realms) ELSE {}]
       /\ ServerRead
       /\ UNCHANGED <<cfgvars, passvars, storevars, exchanged, used, noncevars>>

\* request_token_handler: one request-token request
RequestToken(client_key, realm, redirect_uri, nonce, sig, tag) ==
    IF ~wired THEN Refused("request_token", None, "RuntimeError", FALSE, FALSE)
    ELSE IF down /\ ~(realm # <<>> /\ (~check_realms(realm) \/ redirect_uri = None))
    THEN Refused("request_token", None, "StoreError", TRUE, TRUE)
    ELSE
    \E v \in {validate_request_token_request(client_key, realm, redirect_uri,
                                               nonce, sig)} :
    LET n == Cardinality(grants) + 1
    IN /\ v.outcome = "valid" => n <= MaxGrants
       /\ v.realms # <<>> => tag = "list"
       /\ nonces' = v.nonces
       /\ grants' = create_request_token_response(v.outcome = "valid",
                         RequestTokenNames[n], RequestTokenSecrets[n],
                         client_key, v.r.redirect_uri, v.realms, tag)
       /\ resp' = [NoResp EXCEPT
              !.op = "request_token",
              !.status = CASE v.outcome = "valid" -> 200
                           [] v.outcome = "invalid" -> 401
                           [] v.outcome = "error" -> 400
                           [] OTHER -> 500,
              !.accepted = v.outcome = "valid",
              !.faulted = v.outcome = "fault",
              !.handler = TRUE,
              !.touched = ~(realm # <<>> /\ v.outcome = "error"),
              !.error = IF v.outcome = "fault" THEN "AttributeError" ELSE None,
              !.required = SetOf(v.realms),
              !.held = IF HasClient(client_key)
                       THEN SetOf(ClientStore[client_key].default_realms)
                       ELSE {},
              !.issued = IF v.outcome = "valid" THEN RequestTokenNames[n] ELSE None,
              !.known_client = HasClient(client_key),
              !.nonce_ok = v.nonce_ok,
              !.signed = sig = <<SecretOfClient(client_key), "">>]
       /\ ServerRead
       /\ UNCHANGED <<cfgvars, passvars, tokens, verifiers, exchanged, used, noncevars>>

\* the realms the store holds for a request token, as a set
GrantedRealms(g) == IF g.realms.tag = "list" THEN SetOf(g.realms.val) ELSE {}

\* access_token_handler: one access-token request
AccessToken(client_key, token, verifier, nonce, sig) ==
    IF ~wired THEN Refused("access_token", token, "RuntimeError", FALSE, FALSE)
    ELSE IF down THEN Refused("access_token", token, "StoreError", TRUE, TRUE)
    ELSE
    \E v \in {validate_access_token_request(client_key, token, verifier,
                                              nonce, sig)} :
    LET n == Cardinality(tokens) + 1
        realms == get_realms(v.token, v.r).ret
        authorized == Join(realms)
        held == GrantsOf(client_key, token)
    IN /\ v.valid => n <= MaxTokens
       /\ nonces' = v.nonces
       /\ tokens' = create_access_token_response(v.valid, AccessTokenNames[n],
                         AccessTokenSecrets[n], client_key, authorized)
       /\ exchanged' = IF v.valid THEN exchanged \cup {token} ELSE exchanged
       /\ resp' = [NoResp EXCEPT
              !.op = "access_token",
              !.status = IF v.valid THEN 200 ELSE 401,
              !.accepted = v.valid,
              !.handler = TRUE,
              !.touched = TRUE,
              !.token = token,
              !.issued = IF v.valid THEN AccessTokenNames[n] ELSE None,
              !.known_client = HasClient(client_key),
              !.known_token = held # {},
              !.nonce_ok = v.nonce_ok,
              !.signed = /\ held # {}
                         /\ sig = <<SecretOfClient(client_key), The(held).secret>>,
              !.required = IF v.valid /\ held # {}
                           THEN GrantedRealms(The(held)) ELSE {},
              !.held = IF v.valid THEN SetOf(Split(authorized)) ELSE {},
              !.vv = v.vv,
              !.vrow = \E row \in verifiers :
                          /\ row.verifier = verifier /\ row.token = token
                          /\ row.client_key = client_key,
              !.vrow_any = \E row \in verifiers :
                          /\ row.verifier = verifier /\ row.token = token
                          /\ row.client_key \in {client_key, NoAttr},
              !.reused = token \in exchanged,
              !.new_nonce = nonce \notin used]
       /\ used' = used \cup {nonce}
       /\ ServerRead
       /\ UNCHANGED <<cfgvars, passvars, grants, verifiers, noncevars>>

\* authorize_handler, GET: the request token's realms are resolved and the
\* confirmation page rendered
AuthorizeGet(token) ==
    IF ~wired THEN Refused("authorize_get", token, "RuntimeError", FALSE, FALSE)
    ELSE IF down THEN Refused("authorize_get", token, "StoreError", FALSE, TRUE)
    ELSE
    \E known \in {verify_request_token(token, NewRequest)} :
       /\ resp' = [NoResp EXCEPT
              !.op = "authorize_get",
              !.status = IF known.ret THEN 200 ELSE 500,
              !.faulted = ~known.ret,
              !.touched = TRUE,
              !.error = IF known.ret THEN None ELSE "InvalidClientError",
              !.handler = known.ret,
              !.token = token]
       /\ ServerRead
       /\ UNCHANGED <<cfgvars, passvars, storevars, nonces, exchanged, used, noncevars>>

\* authorize_handler, POST: the callback decides; a denial is answered at
\* once, an approval is handed to confirm_authorization_request, which reads
\* the server first
AuthorizePost(token, decision, verifier) ==
    \E c \in {confirm_authorization_request(token, verifier)} :
    LET confirm == post_decision(decision) = "confirm"
        broken == confirm /\ ~wired
        failed == confirm /\ wired /\ down
        ran == confirm /\ wired /\ ~down
    IN /\ verifiers' = IF ran THEN c.verifiers ELSE verifiers
       /\ resp' = [NoResp EXCEPT
              !.op = "authorize_post",
              !.status = IF ~confirm THEN 302
                         ELSE IF ran THEN c.status ELSE 500,
              !.faulted = confirm /\ (~ran \/ c.status = 500),
              !.error = IF broken THEN "RuntimeError"
                        ELSE IF failed THEN "StoreError"
                        ELSE IF ran /\ c.status = 500 /\ grantgetter(token) = {}
                        THEN "InvalidClientError"
                        ELSE IF ran /\ c.status = 500 THEN "TypeError"
                        ELSE None,
              !.location = IF ~confirm THEN ErrorUri("denied")
                           ELSE IF ran THEN c.location ELSE None,
              !.handler = TRUE,
              !.approved = decision,
              !.confirmed = confirm,
              !.touched = confirm /\ wired,
              !.token = token,
              !.issued = IF ran /\ c.status = 302 /\ c.location \notin ErrorLocations
                         THEN verifier ELSE None]
       /\ cached' = (cached \/ (confirm /\ wired))
       /\ UNCHANGED <<cfgvars, passvars, grants, tokens, nonces, exchanged, used, noncevars>>

-----------------------------------------------------------------------------
(* Specification SpecResource: protected-resource requests against a store *)
(* that holds no access token or one access token of client ck1.           *)
Token0(realms) ==
    [token |-> "at1", secret |-> "as1", client_key |-> "ck1", realms |-> realms]

\* no server assembled yet: self.server yields what is registered
InitServer ==
    /\ cached = FALSE
    /\ reg = [wired |-> wired, vget |-> vget, vset |-> vset]

\* all getters and setters registered, a healthy store with its clients
InitWiring ==
    /\ wired = TRUE
    /\ down = FALSE
    /\ clients = DOMAIN ClientStore
    /\ InitServer

\* no stepwise pass in progress
InitPass ==
    /\ ppc = "idle"
    /\ pkey = None
    /\ preq = NewRequest
    /\ pseen = <<>>

InitWorkers ==
    /\ dupRaises = FALSE
    /\ npc = [w \in Workers |-> "idle"]
    /\ nkey = [w \in Workers |-> None]
    /\ nfound = [w \in Workers |-> {}]
    /\ nret = [w \in Workers |-> None]
    /\ nprior = [w \in Workers |-> {}]

InitResource ==
    /\ testing \in BOOLEAN
    /\ vget = "none"
    /\ vset = FALSE
    /\ grants = {}
    /\ verifiers = {}
    /\ tokens \in {{}} \cup {{Token0(realms)} : realms \in RealmLists}
    /\ nonces = {}
    /\ exchanged = {}
    /\ used = {}
    /\ resp = NoResp
    /\ served = 0
    /\ InitWiring
    /\ InitPass
    /\ InitWorkers

\* the store revokes an access token
Revoke(token) ==
    /\ \E t \in tokens : t.token = token
    /\ tokens' = {t \in tokens : t.token # token}
    /\ resp' = NoResp
    /\ UNCHANGED <<cfgvars, cached, passvars, grants, verifiers, nonces, exchanged, used, noncevars>>

NextResource ==
    \/ \E request \in {<<"ck1", "at1">>, <<"ckX", "at1">>, <<"ck1", "atX">>},
          realms \in RealmLists, nonce \in Nonces,
          sig \in {<<"cs1", "as1">>, <<"cs1", "">>, <<"", "">>} :
            RequireOauth(request[1], request[2], realms, nonce, sig)
                /\ UNCHANGED served
    \/ \E token \in {"at1"} : Revoke(token) /\ UNCHANGED served

SpecResource == InitResource /\ [][NextResource]_vars

-----------------------------------------------------------------------------
(* Specification SpecExchange: access-token requests against a store that  *)
(* holds one request token of client ck1, its realms kept as a list, as    *)
(* None or in no attribute, and at most one verifier row for it.           *)
Grant0(realms) ==
    [token |-> "rt1", secret |-> "rs1", client_key |-> "ck1",
     redirect_uri |-> "u1", realms |-> realms]

GrantRealms0 ==
    {[tag |-> "list", val |-> realms] : realms \in RealmLists}
        \cup {[tag |-> "none", val |-> <<>>], [tag |-> "noattr", val |-> <<>>]}

VerifierRows0 ==
    {[verifier |-> "v1", token |-> "rt1", client_key |-> c] :
        c \in {"ck1", "ck2", NoAttr}}

InitExchange ==
    /\ testing = FALSE
    /\ \/ vget = "none" /\ verifiers = {}
       \/ vget = "strict" /\ verifiers \in {{}} \cup {{row} : row \in VerifierRows0}
    /\ vset = FALSE
    /\ grants \in {{Grant0(realms)} : realms \in GrantRealms0}
    /\ tokens = {}
    /\ nonces = {}
    /\ exchanged = {}
    /\ used = {}
    /\ resp = NoResp
    /\ served = 0
    /\ InitWiring
    /\ InitPass
    /\ InitWorkers

NextExchange ==
    \E request \in {<<"ck1", "rt1">>, <<"ck2", "rt1">>, <<"ck1", "rtX">>},
       verifier \in VerifierNames, nonce \in Nonces,
       sig \in {<<"cs1", "rs1">>, <<"cs2", "rs1">>, <<"cs1", "">>} :
        AccessToken(request[1], request[2], verifier, nonce, sig)
            /\ UNCHANGED served

SpecExchange == InitExchange /\ [][NextExchange]_vars

-----------------------------------------------------------------------------
(* Specification SpecAuthorize: the authorization page and its             *)
(* confirmation, for every wiring of the verifier getter and setter,       *)
(* against a store that holds no request token or one of client ck1.       *)
InitAuthorize ==
    /\ testing = FALSE
    /\ vget \in {"none", "strict", "lenient"}
    /\ vset \in BOOLEAN
    /\ grants \in {{}} \cup {{Grant0(realms)} : realms \in GrantRealms0}
    /\ verifiers = {}
    /\ tokens = {}
    /\ nonces = {}
    /\ exchanged = {}
    /\ used = {}
    /\ resp = NoResp
    /\ served = 0
    /\ InitWiring
    /\ InitPass
    /\ InitWorkers

NextAuthorize ==
    \/ \E token \in {"rt1", "rtX"} : AuthorizeGet(token) /\ UNCHANGED served
    \/ \E token \in {"rt1", "rtX"}, decision \in BOOLEAN,
          verifier \in VerifierNames :
            AuthorizePost(token, decision, verifier) /\ UNCHANGED served

SpecAuthorize == InitAuthorize /\ [][NextAuthorize]_vars

-----------------------------------------------------------------------------
(* Specification SpecRequest: request-token requests of every client, with *)
(* and without a realm parameter and a callback, against an empty store.   *)
RedirectUris == {"u1", "u2"}

InitRequest ==
    /\ testing = FALSE
    /\ vget = "none"
    /\ vset = FALSE
    /\ grants = {}
    /\ verifiers = {}
    /\ tokens = {}
    /\ nonces = {}
    /\ exchanged = {}
    /\ used = {}
    /\ resp = NoResp
    /\ served = 0
    /\ InitWiring
    /\ InitPass
    /\ InitWorkers

NextRequest ==
    \E client_key \in ClientKeys, realm \in {<<>>, <<"r1">>, <<"r2", "r1">>},
       redirect_uri \in RedirectUris \cup {None}, nonce \in {"n1"},
       sig \in {<<"cs1", "">>, <<"cs2", "">>},
       tag \in {"list", "none"} :
        /\ realm # <<>> => tag = "list"
        /\ RequestToken(client_key, realm, redirect_uri, nonce, sig, tag)
        /\ UNCHANGED served

SpecRequest == InitRequest /\ [][NextRequest]_vars

-----------------------------------------------------------------------------
(* Specification Spec: the provider from an empty store, the verifier      *)
(* getter and setter not wired, with and without app.testing: request      *)
(* tokens are issued, authorized, exchanged, and the access tokens used.   *)
Init ==
    /\ testing \in BOOLEAN
    /\ vget = "none"
    /\ vset = FALSE
    /\ grants = {}
    /\ verifiers = {}
    /\ tokens = {}
    /\ nonces = {}
    /\ exchanged = {}
    /\ used = {}
    /\ resp = NoResp
    /\ served = 0
    /\ wired \in BOOLEAN
    /\ down \in BOOLEAN
    /\ clients = DOMAIN ClientStore
    /\ InitServer
    /\ InitPass
    /\ InitWorkers

Next ==
    \/ \E client_key \in {"ck1", "ckX"}, realm \in {<<>>, <<"r1">>},
          redirect_uri \in {"u1", "u2", None}, nonce \in {"n1"},
          sig \in {<<"cs1", "">>, <<"", "">>} :
            /\ served < MaxRequests
            /\ served' = served + 1
            /\ RequestToken(client_key, realm, redirect_uri, nonce, sig, "list")
    \/ \E token \in IssuedGrantNames \cup {"rtX"} :
            /\ served < MaxRequests
            /\ served' = served + 1
            /\ AuthorizeGet(token)
    \/ \E token \in IssuedGrantNames \cup {"rtX"}, decision \in BOOLEAN :
            /\ served < MaxRequests
            /\ served' = served + 1
            /\ AuthorizePost(token, decision, "v1")
    \/ \E token \in IssuedGrantNames \cup {"rtX"}, sig \in {"cs1"} \X GrantSecrets :
            /\ served < MaxRequests
            /\ served' = served + 1
            /\ AccessToken("ck1", token, "v1", "n1", sig)
    \/ \E token \in IssuedTokenNames \cup {"atX"}, realms \in {<<>>, <<"r1">>},
          sig \in {"cs1"} \X TokenSecrets :
            /\ served < MaxRequests
            /\ served' = served + 1
            /\ RequireOauth("ck1", token, realms, "n1", sig)

Spec == Init /\ [][Next]_vars

-----------------------------------------------------------------------------
(* Specification SpecPass: the validation pass of one request-token        *)
(* request, one validator step at a time, while the store registers and    *)
(* drops clients for other requests.  The steps are those that read the    *)
(* client: get_default_realms (for a request without a realm parameter),   *)
(* validate_client_key, validate_requested_realms, validate_redirect_uri   *)
(* and get_client_secret; after a failed validate_client_key the later     *)
(* steps are called with the dummy client key.                             *)
Observation(key, r) ==
    [key |-> key, queried |-> r.client = {},
     found |-> IF r.client # {} THEN TRUE ELSE clientgetter(key) # {}]

InitPasses ==
    /\ testing = FALSE
    /\ vget = "none"
    /\ vset = FALSE
    /\ wired = TRUE
    /\ down = FALSE
    /\ clients \in SUBSET {"ck1", "ck2"}
    /\ InitServer
    /\ grants = {}
    /\ verifiers = {}
    /\ tokens = {}
    /\ nonces = {}
    /\ exchanged = {}
    /\ used = {}
    /\ resp = NoResp
    /\ served = 0
    /\ InitPass
    /\ InitWorkers

PassFrame == UNCHANGED <<reg, cached, wired, down, testing, vget, vset, storevars, nonces,
                         flowvars, noncevars>>

PassBegin(client_key, with_realm) ==
    /\ ppc = "idle"
    /\ served < MaxRequests
    /\ ppc' = IF with_realm THEN "client" ELSE "defaults"
    /\ pkey' = client_key
    /\ preq' = [NewRequest EXCEPT !.redirect_uri = "u1"]
    /\ pseen' = <<>>
    /\ UNCHANGED clients /\ UNCHANGED served /\ PassFrame

PassDefaults ==
    /\ ppc = "defaults"
    /\ preq' = get_default_realms(pkey, preq).r
    /\ pseen' = Append(pseen, Observation(pkey, preq))
    /\ ppc' = "client"
    /\ UNCHANGED <<clients, pkey>> /\ UNCHANGED served /\ PassFrame

PassClient ==
    /\ ppc = "client"
    /\ \E v \in {validate_client_key(pkey, preq)} :
          /\ preq' = v.r
          /\ pkey' = IF v.ret THEN pkey ELSE dummy_client
    /\ pseen' = Append(pseen, Observation(pkey, preq))
    /\ ppc' = "realms"
    /\ UNCHANGED clients /\ UNCHANGED served /\ PassFrame

PassRealms ==
    /\ ppc = "realms"
    /\ \E v \in {validate_requested_realms(pkey, <<"r1">>, preq)} :
          /\ preq' = v.r
          /\ ppc' = IF v.fault THEN "fault" ELSE "uri"
    /\ pseen' = Append(pseen, Observation(pkey, preq))
    /\ UNCHANGED <<clients, pkey>> /\ UNCHANGED served /\ PassFrame

PassUri ==
    /\ ppc = "uri"
    /\ preq' = validate_redirect_uri(pkey, "u1", preq).r
    /\ pseen' = Append(pseen, Observation(pkey, preq))
    /\ ppc' = "secret"
    /\ UNCHANGED <<clients, pkey>> /\ UNCHANGED served /\ PassFrame

PassSecret ==
    /\ ppc = "secret"
    /\ preq' = get_client_secret(pkey, preq).r
    /\ pseen' = Append(pseen, Observation(pkey, preq))
    /\ ppc' = "done"
    /\ UNCHANGED <<clients, pkey>> /\ UNCHANGED served /\ PassFrame

\* the request is answered: the next one starts a new pass
PassEnd ==
    /\ ppc \in {"done", "fault"}
    /\ ppc' = "idle"
    /\ pkey' = None
    /\ preq' = NewRequest
    /\ pseen' = <<>>
    /\ served' = served + 1
    /\ UNCHANGED clients /\ PassFrame

\* the store registers a client, or drops one, on behalf of another request
Register(client_key) ==
    /\ client_key \notin clients
    /\ clients' = clients \cup {client_key}
    /\ UNCHANGED passvars /\ UNCHANGED served /\ PassFrame

Unregister(client_key) ==
    /\ client_key \in clients
    /\ clients' = clients \ {client_key}
    /\ UNCHANGED passvars /\ UNCHANGED served /\ PassFrame

NextPass ==
    \/ \E client_key \in {"ck1", "ck2", "ckX"}, with_realm \in BOOLEAN :
          PassBegin(client_key, with_realm)
    \/ PassDefaults
    \/ PassClient
    \/ PassRealms
    \/ PassUri
    \/ PassSecret
    \/ PassEnd
    \/ \E client_key \in {"ck1", "ck2"} : Register(client_key)
    \/ \E client_key \in {"ck1", "ck2"} : Unregister(client_key)

SpecPass == InitPasses /\ [][NextPass]_vars

-----------------------------------------------------------------------------
(* Specification SpecServer: getters and setters are registered and        *)
(* replaced on the provider while authorization pages and confirmations    *)
(* are served, from a provider on which any of them may be missing.        *)
Capabilities ==
    [wired : BOOLEAN, vget : {"none", "strict", "lenient"}, vset : BOOLEAN]

InitCapabilities ==
    /\ testing = FALSE
    /\ wired \in BOOLEAN
    /\ vget \in {"none", "strict", "lenient"}
    /\ vset \in BOOLEAN
    /\ InitServer
    /\ down = FALSE
    /\ clients = DOMAIN ClientStore
    /\ grants = {Grant0([tag |-> "list", val |-> <<"r1">>])}
    /\ verifiers = {}
    /\ tokens = {}
    /\ nonces = {}
    /\ exchanged = {}
    /\ used = {}
    /\ resp = NoResp
    /\ served = 0
    /\ InitPass
    /\ InitWorkers

\* the registration decorators: the provider's attributes are set; a getter
\* or setter can be added or replaced, not taken away
RegisterCapabilities(new) ==
    /\ new # reg
    /\ reg.wired => new.wired
    /\ reg' = new
    /\ \E s \in {server([wired |-> wired, vget |-> vget, vset |-> vset],
                         cached, new)} :
          /\ wired' = s.wired
          /\ vget' = s.vget
          /\ vset' = s.vset
    /\ resp' = NoResp
    /\ UNCHANGED <<cached, down, clients, testing, storevars, nonces, exchanged,
                   used, noncevars, passvars>>

NextServer ==
    \/ \E new \in Capabilities : RegisterCapabilities(new) /\ UNCHANGED served
    \/ \E token \in {"rt1", "rtX"} : AuthorizeGet(token) /\ UNCHANGED served
    \/ \E token \in {"rt1", "rtX"}, decision \in BOOLEAN :
            AuthorizePost(token, decision, "v1") /\ UNCHANGED served

SpecServer == InitCapabilities /\ [][NextServer]_vars

-----------------------------------------------------------------------------
(* Specification SpecNonce: NWorkers requests, each running                *)
(* validate_timestamp_and_nonce once, their noncegetter and noncesetter    *)
(* calls interleaved in any order.  The noncesetter is an atomic           *)
(* insert-if-absent that either ignores a duplicate or raises on it.       *)
NonceKeys ==
    {[client_key |-> c, timestamp |-> Timestamp, nonce |-> n,
      request_token |-> None, access_token |-> None] :
        c \in {"ck1", "ck2"}, n \in Nonces}

\* the keys of the calls that have returned True
AcceptedKeys == {nkey[w] : w \in {x \in Workers : npc[x] = "done" /\ nret[x] = "True"}}

InitNonce ==
    /\ testing = FALSE
    /\ vget = "none"
    /\ vset = FALSE
    /\ grants = {}
    /\ verifiers = {}
    /\ tokens = {}
    /\ nonces = {}
    /\ exchanged = {}
    /\ used = {}
    /\ resp = NoResp
    /\ served = 0
    /\ InitWiring
    /\ InitPass
    /\ dupRaises \in BOOLEAN
    /\ npc = [w \in Workers |-> "idle"]
    /\ nkey = [w \in Workers |-> None]
    /\ nfound = [w \in Workers |-> {}]
    /\ nret = [w \in Workers |-> None]
    /\ nprior = [w \in Workers |-> {}]

\* validate_timestamp_and_nonce up to the noncegetter's answer
NonceGet(w, key) ==
    /\ npc[w] = "idle"
    /\ npc' = [npc EXCEPT ![w] = "got"]
    /\ nkey' = [nkey EXCEPT ![w] = key]
    /\ nfound' = [nfound EXCEPT ![w] =
                     noncegetter(nonces, key.client_key, key.timestamp,
                                 key.nonce, key.request_token, key.access_token)]
    /\ nprior' = [nprior EXCEPT ![w] = AcceptedKeys]
    /\ UNCHANGED <<cfgvars, cached, passvars, storevars, nonces, flowvars, dupRaises, nret>>

\* validate_timestamp_and_nonce from the test of the answer to the return
NonceSet(w) ==
    LET key == nkey[w]
        rec == NonceRecord(key.client_key, key.timestamp, nfound[w],
                           key.request_token, key.access_token)
    IN /\ npc[w] = "got"
       /\ npc' = [npc EXCEPT ![w] = "done"]
       /\ IF nfound[w] # {}
          THEN /\ nret' = [nret EXCEPT ![w] = "False"]
               /\ nonces' = nonces
          ELSE IF dupRaises /\ rec \in nonces
          THEN /\ nret' = [nret EXCEPT ![w] = "raised"]
               /\ nonces' = nonces
          ELSE /\ nret' = [nret EXCEPT ![w] = "True"]
               /\ nonces' = noncesetter(nonces, rec)
       /\ UNCHANGED <<cfgvars, cached, passvars, storevars, flowvars, dupRaises, nkey, nfound, nprior>>

NextNonce ==
    \/ \E w \in Workers, key \in NonceKeys : NonceGet(w, key) /\ UNCHANGED served
    \/ \E w \in Workers : NonceSet(w) /\ UNCHANGED served

SpecNonce == InitNonce /\ [][NextNonce]_vars

-----------------------------------------------------------------------------
(* C3: a protected-resource request whose client, access token, signature   *)
(* and nonce are all valid is accepted exactly when the realms of the      *)
(* access token, as a set, include every realm require_oauth requires.     *)
ResourceAcceptedIffRealmsHeld ==
    (/\ resp.op = "resource"
     /\ resp.known_client /\ resp.known_token /\ resp.signed /\ resp.nonce_ok)
        => /\ ~resp.faulted
           /\ resp.accepted <=> (resp.required \subseteq resp.held)

\* an accepted request that requires some realm and whose token holds more
ResourceAcceptedWithMoreRealms ==
    /\ resp.op = "resource"
    /\ resp.known_client /\ resp.known_token /\ resp.signed /\ resp.nonce_ok
    /\ resp.accepted
    /\ resp.required # {}
    /\ resp.required # resp.held

(* C4: the resource handler runs only for a request the validation pass    *)
(* accepted; a request the pass rejected is answered 403 and the handler   *)
(* does not run.                                                           *)
HandlerOnlyAfterAcceptance ==
    resp.op = "resource" =>
        /\ resp.handler => resp.accepted
        /\ (~resp.accepted /\ ~resp.faulted) =>
               (resp.status = 403 /\ ~resp.handler)

\* a rejected request answered 403, and an accepted one whose handler ran
ResourceRejected ==
    resp.op = "resource" /\ ~resp.accepted /\ ~resp.faulted /\ resp.status = 403

(* C5: a protected-resource request presenting an access token the store   *)
(* does not return ends with 403.                                          *)
AbsentTokenForbidden ==
    (resp.op = "resource" /\ ~resp.known_token) => resp.status = 403

(* C1: once a call of validate_timestamp_and_nonce with some composite key  *)
(* has been accepted, a later call with the same key is not accepted.      *)
ReplayRejected ==
    \A w \in Workers :
        (npc[w] = "done" /\ nkey[w] \in nprior[w]) => nret[w] = "False"

(* C2: of the concurrent calls presenting one composite key, exactly one    *)
(* returns True.                                                           *)
ExactlyOneAccepted ==
    (/\ \A w \in Workers : npc[w] = "done"
     /\ \A w \in Workers : nkey[w] = nkey[1])
        => Cardinality({w \in Workers : nret[w] = "True"}) = 1

(* C6, as the code has it: unless app.testing is set, a request-token,     *)
(* access-token or protected-resource request is accepted only if it was   *)
(* signed with the secrets the store holds for its client and token; one   *)
(* whose client or token secret the store does not return is rejected.     *)
SignatureFailsClosedUnlessTesting ==
    (/\ ~testing
     /\ resp.op \in {"request_token", "access_token", "resource"}
     /\ resp.accepted) => resp.signed

\* a correctly signed protected-resource request accepted without app.testing
SignedResourceRequestAccepted ==
    ~testing /\ resp.op = "resource" /\ resp.accepted /\ resp.signed

(* C6: under every configuration, a request-token, access-token or         *)
(* protected-resource request is accepted only if it was signed with the   *)
(* secrets the store holds for its client and token.                       *)
SignatureFailsClosed ==
    (/\ resp.op \in {"request_token", "access_token", "resource"}
     /\ resp.accepted) => resp.signed

(* C7, as the code has it: with a verifier getter wired, validate_verifier  *)
(* answers True only if the store has a verifier row for (verifier, token) *)
(* whose client_key is the requesting client's or which states none.       *)
VerifierRowBehindTrue ==
    (resp.op = "access_token" /\ resp.vv /\ vget # "none") => resp.vrow_any

\* an access-token request accepted on a verifier row of the store
AcceptedOnVerifierRow ==
    resp.op = "access_token" /\ resp.accepted /\ vget # "none" /\ resp.vrow

(* C7: validate_verifier answers True only if the store has a verifier row  *)
(* for (verifier, token) that belongs to the requesting client.            *)
VerifierRowOfClientBehindTrue ==
    (resp.op = "access_token" /\ resp.vv) => resp.vrow

(* C8: with verifier getter and setter wired, an approved confirmation    *)
(* for a request token of the store answers with the redirect to the      *)
(* client, and validate_verifier then accepts the verifier issued, for    *)
(* that token and its client.                                             *)
ApprovedVerifierPersisted ==
    (/\ resp.op = "authorize_post" /\ resp.approved
     /\ vset /\ vget # "none"
     /\ grantgetter(resp.token) # {})
        => /\ resp.status = 302
           /\ resp.issued # None
           /\ validate_verifier(The(grantgetter(resp.token)).client_key,
                                resp.token, resp.issued, NewRequest).ret

(* C9: an access-token request presenting a request token that was         *)
(* exchanged before is rejected, fresh nonce or not.                       *)
RequestTokenSingleUse ==
    (/\ resp.op = "access_token"
     /\ resp.reused /\ resp.new_nonce /\ resp.signed /\ resp.vrow)
        => ~resp.accepted

(* C10: the access token handed to the token setter carries, as a set, the *)
(* realms the store holds for the request token exchanged, none when they  *)
(* are empty or unset.                                                     *)
ExchangeKeepsRealms ==
    (resp.op = "access_token" /\ resp.accepted) => resp.held = resp.required

\* an exchange of a request token whose realms the store keeps as None
ExchangedWithRealmsUnset ==
    /\ resp.op = "access_token" /\ resp.accepted
    /\ \E g \in grants : g.token = resp.token /\ g.realms.tag = "none"
    /\ resp.held = {}

(* C11: a confirmation the callback denied is answered with the redirect   *)
(* to the error URI with error=denied; in that request no verifier is      *)
(* issued, the verifier rows stay as they were and                         *)
(* confirm_authorization_request is not invoked.                           *)
DeniedRedirectsWithoutVerifier ==
    [][(resp'.op = "authorize_post" /\ ~resp'.approved)
          => /\ resp'.status = 302
             /\ resp'.location = ErrorUri("denied")
             /\ resp'.issued = None
             /\ ~resp'.confirmed
             /\ verifiers' = verifiers]_vars

\* a denied confirmation for a request token the store holds
ConfirmationDenied ==
    /\ resp.op = "authorize_post" /\ ~resp.approved
    /\ grantgetter(resp.token) # {}
    /\ resp.location = ErrorUri("denied")

(* C12: an approved confirmation for a request token the store does not    *)
(* hold, the protocol error of resolving its realms and credentials, is    *)
(* answered with the redirect to the error URI with the error appended.    *)
UnknownTokenConfirmationRedirected ==
    (/\ resp.op = "authorize_post" /\ resp.approved
     /\ wired /\ ~down
     /\ grantgetter(resp.token) = {})
        => /\ resp.status = 302
           /\ resp.location \in ErrorLocations
           /\ ~resp.faulted

(* C13: a request-token request is issued a request token only if the      *)
(* realms it asks for are, as a set, among the default realms of its       *)
(* client.                                                                 *)
RequestedRealmsWithinDefaults ==
    (resp.op = "request_token" /\ resp.accepted)
        => resp.required \subseteq resp.held

(* C14: while a required getter or setter is unregistered, every request   *)
(* to an endpoint ends with the configuration error (RuntimeError) and     *)
(* before any user callback has run.                                       *)
UnwiredOperationRefused ==
    (~wired /\ resp.op # "none")
        => /\ resp.status = 500
           /\ resp.error = "RuntimeError"
           /\ ~resp.handler

(* C15: with everything wired and a store that answers, a request-token or *)
(* access-token request ends in a wire-level response, 200 or a structured *)
(* error, whether or not its client and request token are known.           *)
TokenRequestsAnswered ==
    (/\ wired /\ ~down
     /\ resp.op \in {"request_token", "access_token"})
        => /\ ~resp.faulted
           /\ resp.status \in {200, 400, 401}

(* C16: a request during which a callback of the store failed ends with    *)
(* the flow's rejection response: a structured error, the error redirect   *)
(* or 403.                                                                 *)
StoreFailureRejected ==
    (wired /\ down /\ resp.touched)
        => /\ ~resp.faulted
           /\ \/ resp.status \in {400, 401, 403}
              \/ resp.status = 302 /\ resp.location \in ErrorLocations

(* C17: within one validation pass, the steps that read the client all     *)
(* observe the same lookup result for the same client key, whatever the    *)
(* store registers or drops meanwhile.                                     *)
ClientLookupsConsistent ==
    \A i, j \in DOMAIN pseen :
        (i < j /\ pseen[i].key = pseen[j].key)
            => pseen[j].found = pseen[i].found

(* C18: an access-token request is accepted only if the store holds the    *)
(* request token it presents for the requesting client; and, whether the   *)
(* request context already holds the token or not, validate_request_token  *)
(* answers True, and get_request_token_secret returns a secret, only for   *)
(* the client that owns the token.                                         *)
RequestTokenOfClientOnly ==
    /\ (resp.op = "access_token" /\ resp.accepted) => resp.known_token
    /\ \A client_key \in ClientKeys, g \in grants :
          \A kept \in {{}, {g}} :
             LET r == [NewRequest EXCEPT !.request_token = kept]
             IN /\ validate_request_token(client_key, g.token, r).ret
                       => g.client_key = client_key
                /\ get_request_token_secret(client_key, g.token, r).ret # None
                       => g.client_key = client_key

\* a known client rejected on presenting another client's request token
OtherClientsTokenRejected ==
    /\ resp.op = "access_token" /\ ~resp.accepted
    /\ resp.known_client /\ ~resp.known_token
    /\ grantgetter(resp.token) # {}

(* C19: validate_redirect_uri answers True exactly when the client exists  *)
(* and the redirect_uri is one of its redirect_uris, or it has none and no *)
(* redirect_uri was given; it never raises; and it sets the redirect_uri   *)
(* of the request context exactly on the path that tests the membership.   *)
(* A request token is therefore issued only with a registered callback.    *)
RedirectUriValidated ==
    /\ \A client_key \in ClientKeys, redirect_uri \in RedirectUris \cup {None} :
          LET v == validate_redirect_uri(client_key, redirect_uri, NewRequest)
              c == clientgetter(client_key)
              unset == c # {} /\ The(c).redirect_uris = <<>> /\ redirect_uri = None
              member == c # {} /\ redirect_uri \in SetOf(The(c).redirect_uris)
          IN /\ ~v.fault
             /\ v.ret <=> (member \/ unset)
             /\ v.r.redirect_uri =
                    IF c # {} /\ ~unset THEN redirect_uri ELSE None
    /\ (resp.op = "request_token" /\ resp.accepted)
          => \E g \in grants :
                /\ g.token = resp.issued
                /\ g.redirect_uri \in SetOf(ClientStore[g.client_key].redirect_uris)

\* a request token issued with the registered callback of its client
IssuedWithRegisteredCallback ==
    /\ resp.op = "request_token" /\ resp.accepted
    /\ \E g \in grants : g.token = resp.issued /\ g.redirect_uri # None

(* C20: for the request token of an authorization page or confirmation   *)
(* and every list of realms, verify_realms returns without a fault, and   *)
(* answers True exactly when the token has no realms attribute or its     *)
(* realms, empty when unset, are as a set the realms presented.           *)
VerifyRealmsTotal ==
    (resp.op \in {"authorize_get", "authorize_post"})
        => \A g \in grantgetter(resp.token), realms \in RealmLists :
              LET v == verify_realms(g.token, realms, NewRequest)
              IN /\ ~v.fault
                 /\ v.ret <=> (\/ g.realms.tag = "noattr"
                               \/ SetOf(realms) = GrantedRealms(g))

(* C21: once the server property has been read successfully the server is  *)
(* kept, and what it has captured (the required getters and setters, the   *)
(* verifier getter and setter) stays as it is whatever is registered       *)
(* afterwards: an approved confirmation fails in save_verifier exactly     *)
(* when the captured verifier wiring makes it fail.  A read that raised    *)
(* RuntimeError keeps nothing: while no server is kept the next read       *)
(* assembles it from what is registered then, and raises only while a      *)
(* required getter or setter is missing.                                   *)
ServerFixedAtFirstUse ==
    [][/\ cached => /\ cached'
                    /\ wired' = wired /\ vget' = vget /\ vset' = vset
       /\ ~cached' => /\ wired' = reg'.wired
                      /\ vget' = reg'.vget /\ vset' = reg'.vset
       /\ resp'.error = "RuntimeError" => (~wired /\ ~cached')
       /\ (resp'.op = "authorize_get" /\ wired) => cached'
       /\ (/\ cached
           /\ resp'.op = "authorize_post" /\ resp'.approved
           /\ grantgetter(resp'.token) # {})
             => (resp'.error = "TypeError" <=> (vset /\ vget # "lenient"))
      ]_vars

\* a confirmation served by the kept server after the verifier getter or
\* setter was registered anew
ServedByFirstServer ==
    /\ cached
    /\ <<reg.vget, reg.vset>> # <<vget, vset>>
    /\ resp.op = "authorize_post" /\ resp.approved /\ resp.status = 302

(* C22: the request tokens of the store change only by one token saved for *)
(* an accepted request-token request, its access tokens only by one token  *)
(* saved for an accepted access-token request; a request answered with a   *)
(* structured error (400, 401) leaves both as they were.                   *)
CredentialsSavedOnAcceptance ==
    [][/\ grants' # grants
            => /\ resp'.op = "request_token" /\ resp'.accepted
               /\ grants \subseteq grants'
               /\ Cardinality(grants') = Cardinality(grants) + 1
               /\ tokens' = tokens
       /\ tokens' # tokens
            => /\ resp'.op = "access_token" /\ resp'.accepted
               /\ tokens \subseteq tokens'
               /\ Cardinality(tokens') = Cardinality(tokens) + 1
               /\ grants' = grants
       /\ (/\ resp'.op \in {"request_token", "access_token"}
           /\ resp'.status \in {400, 401})
            => (grants' = grants /\ tokens' = tokens)
      ]_vars

\* an access token saved for an accepted exchange, and nothing else
OneTokenSavedForExchange ==
    /\ resp.op = "access_token" /\ resp.accepted
    /\ Cardinality(grants) = 1
    /\ tokens = {t \in tokens : t.token = resp.issued}
    /\ Cardinality(tokens) = 1

====
